---- MODULE Spec2Model ----
(***************************************************************************)
(* Model of the Airfind BLE scanner: RealBLEService (advertisement         *)
(* processing, classification, scan session, favorites storage) and the    *)
(* screens that consume its scan callback (ScannerScreen, MapScreen,       *)
(* FavoritesScreen).                                                       *)
(*                                                                         *)
(* Strings the code inspects character by character (names, UUIDs, base64  *)
(* payloads, hex renderings) are sequences of one-character strings.       *)
(* A nullable field is a sequence of length 0 (null/undefined) or 1.       *)
(***************************************************************************)
EXTENDS Integers, Sequences, FiniteSets, TLC

VARIABLES
    in,                 \* pure-function harness: the react-native-ble-plx Device handed to processBLEDevice
    out,                \* pure-function harness: the BLEDevice returned by processBLEDevice
    isScanning,         \* RealBLEService.isScanning
    discoveredDevices,  \* RealBLEService.discoveredDevices (Map, insertion ordered: sequence of [key, value])
    scanOwner,          \* which caller's onDeviceFound closure the active radio scan delivers to
    bleState,           \* adapter power state reported by bleManager.state() / onStateChange
    startPc,            \* per caller: where its RealBLEService.startScanning invocation is suspended
    storage,            \* AsyncStorage value under 'ble_favorites' (parsed array of ids)
    now,                \* wall clock read by new Date()
    scanner,            \* ScannerScreen React state
    map,                \* MapScreen React state
    favs,               \* FavoritesScreen React state
    tab                 \* the focused tab screen

harness == <<in, out>>
service == <<isScanning, discoveredDevices, scanOwner, bleState, startPc, storage, now>>
screens == <<scanner, map, favs, tab>>
vars == <<in, out, isScanning, discoveredDevices, scanOwner, bleState, startPc,
          storage, now, scanner, map, favs, tab>>

-----------------------------------------------------------------------------
(* Nullable values and JavaScript string primitives                        *)

None == <<>>
Some(v) == <<v>>

\* JavaScript truthiness of a nullable string: null, undefined and '' are falsy.
Truthy(opt) == opt # None /\ opt[1] # <<>>

UpperChars == <<"A","B","C","D","E","F","G","H","I","J","K","L","M",
                "N","O","P","Q","R","S","T","U","V","W","X","Y","Z">>
LowerChars == <<"a","b","c","d","e","f","g","h","i","j","k","l","m",
                "n","o","p","q","r","s","t","u","v","w","x","y","z">>

toLowerCase(s) ==
    [i \in 1..Len(s) |->
        IF \E k \in 1..26 : UpperChars[k] = s[i]
        THEN LowerChars[CHOOSE k \in 1..26 : UpperChars[k] = s[i]]
        ELSE s[i]]

toUpperCase(s) ==
    [i \in 1..Len(s) |->
        IF \E k \in 1..26 : LowerChars[k] = s[i]
        THEN UpperChars[CHOOSE k \in 1..26 : LowerChars[k] = s[i]]
        ELSE s[i]]

startsWith(s, p) ==
    /\ Len(p) <= Len(s)
    /\ \A i \in 1..Len(p) : s[i] = p[i]

includes(s, p) ==
    \E off \in 0..(Len(s) - Len(p)) : \A i \in 1..Len(p) : s[off + i] = p[i]

\* String.prototype.substring(a, b) for 0 <= a <= b, clipped to the length.
substring(s, a, b) ==
    LET e == IF b > Len(s) THEN Len(s) ELSE b
    IN  IF a >= e THEN <<>> ELSE [i \in 1..(e - a) |-> s[a + i]]

-----------------------------------------------------------------------------
(* Buffer.from(data, 'base64') and buffer.toString('hex')                  *)

Base64Chars == <<"A","B","C","D","E","F","G","H","I","J","K","L","M",
                 "N","O","P","Q","R","S","T","U","V","W","X","Y","Z",
                 "a","b","c","d","e","f","g","h","i","j","k","l","m",
                 "n","o","p","q","r","s","t","u","v","w","x","y","z",
                 "0","1","2","3","4","5","6","7","8","9","+","/">>

IsBase64Char(c) == c \in {"-", "_"} \/ \E k \in 1..64 : Base64Chars[k] = c

Sextet(c) ==
    IF c = "-" THEN 62
    ELSE IF c = "_" THEN 63
    ELSE (CHOOSE k \in 1..64 : Base64Chars[k] = c) - 1

\* The decoder reads up to the first '=' and skips characters outside the alphabet.
RECURSIVE Base64Sextets(_)
Base64Sextets(s) ==
    IF s = <<>> \/ Head(s) = "=" THEN <<>>
    ELSE IF IsBase64Char(Head(s)) THEN <<Sextet(Head(s))>> \o Base64Sextets(Tail(s))
    ELSE Base64Sextets(Tail(s))

\* byte k (0-based) of the 6-bit stream regrouped in 8-bit units
Base64Byte(sx, k) ==
    LET i   == ((8 * k) \div 6) + 1
        off == (8 * k) % 6
    IN  IF off = 0 THEN sx[i] * 4 + (sx[i + 1] \div 16)
        ELSE IF off = 2 THEN (sx[i] % 16) * 16 + (sx[i + 1] \div 4)
        ELSE (sx[i] % 4) * 64 + sx[i + 1]

BufferFromBase64(data) ==
    LET sx == Base64Sextets(data)
        n  == (Len(sx) * 6) \div 8
    IN  [k \in 1..n |-> Base64Byte(sx, k - 1)]

HexDigits == <<"0","1","2","3","4","5","6","7","8","9","a","b","c","d","e","f">>

RECURSIVE toStringHex(_)
toStringHex(buf) ==
    IF buf = <<>> THEN <<>>
    ELSE <<HexDigits[(Head(buf) \div 16) + 1], HexDigits[(Head(buf) % 16) + 1]>>
         \o toStringHex(Tail(buf))

-----------------------------------------------------------------------------
(* RealBLEService: classification                                          *)

findMyServiceUUID == <<"7","D","F","C","9","0","0","0","-","7","D","1","C","-","4","9","5","1","-","8","6","A","A","-","8","D","9","7","2","8","F","8","D","6","6","C">>
handoffServiceUUID == <<"D","0","6","1","1","E","7","8","-","B","B","B","4","-","4","5","9","1","-","A","5","F","8","-","4","8","7","9","1","0","A","E","4","3","6","6">>
airdropServiceUUID == <<"7","B","A","9","4","D","8","0","-","5","D","A","D","-","4","5","4","4","-","8","C","F","4","-","3","7","0","E","3","9","B","B","1","C","A","0">>
audioServiceUUIDs == {
    <<"0","0","0","0","1","1","0","B","-","0","0","0","0","-","1","0","0","0","-","8","0","0","0","-","0","0","8","0","5","F","9","B","3","4","F","B">>,
    <<"0","0","0","0","1","1","0","A","-","0","0","0","0","-","1","0","0","0","-","8","0","0","0","-","0","0","8","0","5","F","9","B","3","4","F","B">>,
    <<"0","0","0","0","1","1","1","E","-","0","0","0","0","-","1","0","0","0","-","8","0","0","0","-","0","0","8","0","5","F","9","B","3","4","F","B">> }

androidManufacturerIds == { <<"0","0","e","0">>, <<"0","0","7","5">>, <<"0","0","1","d">> }

\* serviceUUIDs.some(uuid => uuid.toUpperCase().includes(target.toUpperCase()))
someIncludes(serviceUUIDs, target) ==
    \E i \in 1..Len(serviceUUIDs) :
        includes(toUpperCase(serviceUUIDs[i]), toUpperCase(target))

\* Returns the hex rendering when it starts with manufacturerId, else null.
parseManufacturerData(data, manufacturerId) ==
    LET hex == toStringHex(BufferFromBase64(data))
    IN  IF startsWith(toLowerCase(hex), toLowerCase(manufacturerId))
        THEN Some(hex) ELSE None

isAirTag(manufacturerData, serviceUUIDs) ==
    LET hasAppleData     == startsWith(manufacturerData, <<"0","0","4","c">>)
        hasFindMyService == someIncludes(serviceUUIDs, findMyServiceUUID)
        hasAirTagPattern == /\ Len(manufacturerData) >= 8
                            /\ substring(manufacturerData, 4, 6) = <<"1","2">>
    IN  hasAppleData /\ (hasFindMyService \/ hasAirTagPattern)

isIPhone(manufacturerData, serviceUUIDs, name) ==
    LET hasHandoff == someIncludes(serviceUUIDs, handoffServiceUUID)
        hasAirDrop == someIncludes(serviceUUIDs, airdropServiceUUID)
        nameIndicatesIPhone == \/ includes(name, <<"i","p","h","o","n","e">>)
                               \/ includes(name, <<"i","o","s">>)
    IN  hasHandoff \/ hasAirDrop \/ nameIndicatesIPhone

isAudioDevice(serviceUUIDs, name) ==
    LET hasAudioService == \E u \in audioServiceUUIDs : someIncludes(serviceUUIDs, u)
        nameIndicatesAudio == \/ includes(name, <<"a","i","r","p","o","d","s">>)
                              \/ includes(name, <<"h","e","a","d","p","h","o","n","e","s">>)
                              \/ includes(name, <<"s","p","e","a","k","e","r">>)
                              \/ includes(name, <<"b","e","a","t","s">>)
    IN  hasAudioService \/ nameIndicatesAudio

\* manufacturerData is the raw (base64) field here, not its hex rendering.
isAndroidDevice(manufacturerData, name) ==
    IF ~Truthy(manufacturerData) THEN FALSE
    ELSE LET hasAndroidManufacturer ==
                 \E id \in androidManufacturerIds :
                     startsWith(toLowerCase(manufacturerData[1]), id)
             nameIndicatesAndroid == \/ includes(name, <<"a","n","d","r","o","i","d">>)
                                     \/ includes(name, <<"p","i","x","e","l">>)
                                     \/ includes(name, <<"s","a","m","s","u","n","g">>)
         IN  hasAndroidManufacturer \/ nameIndicatesAndroid

\* device.localName || device.name || fallback
deviceName(device, fallback) ==
    IF Truthy(device.localName) THEN device.localName[1]
    ELSE IF Truthy(device.name) THEN device.name[1]
    ELSE fallback

\* device.serviceUUIDs || []
deviceServiceUUIDs(device) ==
    IF device.serviceUUIDs = None THEN <<>> ELSE device.serviceUUIDs[1]

\* The value of appleManufacturerData inside identifyDeviceType (null when the
\* payload is falsy or its hex does not start with '004c').
appleManufacturerData(device) ==
    IF Truthy(device.manufacturerData)
    THEN parseManufacturerData(device.manufacturerData[1], <<"0","0","4","c">>)
    ELSE None

\* identifyDeviceType with the iPhone test ahead of the AirTag test
identifyDeviceType_iPhoneFirst(device) ==
    LET name         == toLowerCase(deviceName(device, <<>>))
        serviceUUIDs == deviceServiceUUIDs(device)
        apple        == appleManufacturerData(device)
    IN  IF apple # None /\ isIPhone(apple[1], serviceUUIDs, name) THEN "iphone"
        ELSE IF apple # None /\ isAirTag(apple[1], serviceUUIDs) THEN "airtag"
        ELSE IF isAudioDevice(serviceUUIDs, name) THEN "headphones"
        ELSE IF isAndroidDevice(device.manufacturerData, name) THEN "android"
        ELSE "unknown"

identifyDeviceType(device) ==
    LET name         == toLowerCase(deviceName(device, <<>>))
        serviceUUIDs == deviceServiceUUIDs(device)
        apple        == appleManufacturerData(device)
    IN  IF apple # None /\ isAirTag(apple[1], serviceUUIDs) THEN "airtag"
        ELSE IF apple # None /\ isIPhone(apple[1], serviceUUIDs, name) THEN "iphone"
        ELSE IF isAudioDevice(serviceUUIDs, name) THEN "headphones"
        ELSE IF isAndroidDevice(device.manufacturerData, name) THEN "android"
        ELSE "unknown"

manufacturerMap == [id \in {76, 224, 117, 29, 15} |->
    CASE id = 76  -> "Apple"
      [] id = 224 -> "Google"
      [] id = 117 -> "Samsung"
      [] id = 29  -> "Qualcomm"
      [] id = 15  -> "Broadcom"]

\* buffer.readUInt16LE(0); throws (RangeError) for a buffer shorter than 2 bytes
readUInt16LE0(buf) == buf[1] + 256 * buf[2]

\* extractManufacturer without its try/catch: the RangeError of readUInt16LE on a
\* buffer shorter than 2 bytes leaves the function instead of 'Unknown'
extractManufacturer_noCatch(device) ==
    IF ~Truthy(device.manufacturerData) THEN "Unknown"
    ELSE LET buffer == BufferFromBase64(device.manufacturerData[1])
         IN  IF Len(buffer) < 2 THEN "RangeError"
             ELSE IF readUInt16LE0(buffer) \in DOMAIN manufacturerMap
                  THEN manufacturerMap[readUInt16LE0(buffer)]
                  ELSE "Unknown"

extractManufacturer(device) ==
    IF ~Truthy(device.manufacturerData) THEN "Unknown"
    ELSE LET buffer == BufferFromBase64(device.manufacturerData[1])
         IN  IF Len(buffer) < 2 THEN "Unknown"     \* catch branch
             ELSE IF readUInt16LE0(buffer) \in DOMAIN manufacturerMap
                  THEN manufacturerMap[readUInt16LE0(buffer)]
                  ELSE "Unknown"

-----------------------------------------------------------------------------
(* RealBLEService: distance estimate and record construction               *)

\* Distances are in millionths of a metre; Math.pow(10, k/20) is tabulated for
\* the twenty residues of k and scaled by the integral power of ten.
Pow10Twentieths == <<1000000, 1122018, 1258925, 1412538, 1584893, 1778279, 1995262,
                     2238721, 2511886, 2818383, 3162278, 3548134, 3981072, 4466836,
                     5011872, 5623413, 6309573, 7079458, 7943282, 8912509>>

RECURSIVE Pow10(_)
Pow10(n) == IF n = 0 THEN 1 ELSE 10 * Pow10(n - 1)

\* Math.pow(10, -k / 20.0): the exponent with its sign reversed
MathPow10_negated(k) ==
    LET r == (0 - k) % 20
        q == ((0 - k) - r) \div 20
    IN  IF q >= 3 THEN 1000000 * Pow10(3)
        ELSE IF q >= 0 THEN Pow10Twentieths[r + 1] * Pow10(q)
        ELSE Pow10Twentieths[r + 1] \div Pow10(-q)

\* Math.pow(10, k / 20.0), k an integer. A value of 1000 m or more is held as
\* 1000 m: the integers here are 32 bits wide, a double is not, and every reader
\* of the value compares it with 100 m at most.
MathPow10(k) ==
    LET r == k % 20
        q == (k - r) \div 20
    IN  IF q >= 3 THEN 1000000 * Pow10(3)
        ELSE IF q >= 0 THEN Pow10Twentieths[r + 1] * Pow10(q)
        ELSE Pow10Twentieths[r + 1] \div Pow10(-q)

\* Math.max answering with its first argument
Max_first(a, b) == a

Max(a, b) == IF a >= b THEN a ELSE b
Min(a, b) == IF a <= b THEN a ELSE b

\* calculateDistance returning the path-loss value without the final clamp
calculateDistance_unclamped(rssi, txPower) ==
    IF rssi = 0 THEN -1000000
    ELSE MathPow10(txPower - rssi)

calculateDistance(rssi, txPower) ==
    IF rssi = 0 THEN -1000000
    ELSE Max(100000, Min(100000000, MathPow10(txPower - rssi)))

\* device.rssi ?? -100 : only null is replaced, 0 is passed on
rssiOrDefault_nullish(device) ==
    IF device.rssi = None THEN -100 ELSE device.rssi[1]

\* device.rssi || -100 : null and 0 are both falsy
rssiOrDefault(device) ==
    IF device.rssi = None \/ device.rssi[1] = 0 THEN -100 ELSE device.rssi[1]

\* processBLEDevice stamping the record with a reading that runs backwards
processBLEDevice_backwards(device, date) ==
    [ id                |-> device.id,
      name              |-> deviceName(device, <<"U","n","k","n","o","w","n"," ","D","e","v","i","c","e">>),
      type              |-> identifyDeviceType(device),
      distance          |-> calculateDistance(rssiOrDefault(device), -59),
      signalStrength    |-> rssiOrDefault(device),
      isConnected       |-> FALSE,
      isFavorite        |-> FALSE,
      lastSeen          |-> 0 - date,
      manufacturer      |-> extractManufacturer(device),
      serviceUUIDs      |-> deviceServiceUUIDs(device),
      advertisementData |-> device.manufacturerData ]

processBLEDevice(device, date) ==
    [ id                |-> device.id,
      name              |-> deviceName(device, <<"U","n","k","n","o","w","n"," ","D","e","v","i","c","e">>),
      type              |-> identifyDeviceType(device),
      distance          |-> calculateDistance(rssiOrDefault(device), -59),
      signalStrength    |-> rssiOrDefault(device),
      isConnected       |-> FALSE,
      isFavorite        |-> FALSE,
      lastSeen          |-> date,
      manufacturer      |-> extractManufacturer(device),
      serviceUUIDs      |-> deviceServiceUUIDs(device),
      advertisementData |-> device.manufacturerData ]

-----------------------------------------------------------------------------
(* Collections                                                             *)

\* a map that keeps the value it already has under a key
MapSet_keepFirst(m, k, v) ==
    IF \E i \in 1..Len(m) : m[i][1] = k
    THEN m
    ELSE Append(m, <<k, v>>)

\* a map that adds an entry on every set, whether or not the key is present
MapSet_append(m, k, v) ==
    Append(m, <<k, v>>)

\* Map.prototype.set on an insertion-ordered map held as a sequence of <<key, value>>
MapSet(m, k, v) ==
    IF \E i \in 1..Len(m) : m[i][1] = k
    THEN [i \in 1..Len(m) |-> IF m[i][1] = k THEN <<k, v>> ELSE m[i]]
    ELSE Append(m, <<k, v>>)

\* prev.findIndex(d => d.id === id), 0 when absent (JavaScript: -1)
findIndex(list, id) ==
    IF \E i \in 1..Len(list) : list[i].id = id
    THEN CHOOSE i \in 1..Len(list) :
             list[i].id = id /\ \A j \in 1..(i - 1) : list[j].id # id
    ELSE 0

\* Array.prototype.sort((a, b) => a.distance - b.distance): stable, in place
RECURSIVE insertByDistance(_, _)
insertByDistance(sorted, d) ==
    IF sorted = <<>> THEN <<d>>
    ELSE IF d.distance < Head(sorted).distance THEN <<d>> \o sorted
    ELSE <<Head(sorted)>> \o insertByDistance(Tail(sorted), d)

RECURSIVE sortByDistance(_)
sortByDistance(list) ==
    IF list = <<>> THEN <<>>
    ELSE insertByDistance(sortByDistance(SubSeq(list, 1, Len(list) - 1)), list[Len(list)])

Ids(list) == {list[i].id : i \in 1..Len(list)}
Range(seq) == {seq[i] : i \in 1..Len(seq)}

-----------------------------------------------------------------------------
(* Advertisements delivered by the radio                                   *)

DeviceIds == {"A", "B"}

HarnessLocalNames == { None, Some(<<>>), Some(<<"i","P","h","o","n","e">>), Some(<<"S","a","m","s","u","n","g">>) }
HarnessNames      == { None, Some(<<"i","O","S">>), Some(<<"B","e","a","t","s">>), Some(<<"P","i","x","e","l">>), Some(<<"T","a","g">>) }
HarnessPayloads   == { None, Some(<<>>),
                       Some(<<"T","A","A","S","G","Q","=","=">>),    \* 4c 00 12 19
                       Some(<<"A","E","w","S","G","Q","=","=">>),    \* 00 4c 12 19
                       Some(<<"A","E","w","S">>),        \* 00 4c 12
                       Some(<<"T","A","A","S">>),        \* 4c 00 12
                       Some(<<"A","E","w","Q","B","Q","=","=">>),    \* 00 4c 10 05
                       Some(<<"T","A","A","Q","B","Q","=","=">>),    \* 4c 00 10 05
                       Some(<<"4","A","A","=">>),        \* e0 00
                       Some(<<"d","Q","A","=">>),        \* 75 00
                       Some(<<"0","0","E","0">>),        \* d3 41 34
                       Some(<<"T","A","=","=">>),        \* 4c
                       Some(<<"!","!">>) }         \* no base64 character at all
HarnessServiceUUIDs == { None, Some(<<>>),
    Some(<<<<"7","d","f","c","9","0","0","0","-","7","d","1","c","-","4","9","5","1","-","8","6","a","a","-","8","d","9","7","2","8","f","8","d","6","6","c">>>>),
    Some(<<<<"D","0","6","1","1","E","7","8","-","B","B","B","4","-","4","5","9","1","-","A","5","F","8","-","4","8","7","9","1","0","A","E","4","3","6","6">>>>),
    Some(<<<<"{","7","b","a","9","4","d","8","0","-","5","d","a","d","-","4","5","4","4","-","8","c","f","4","-","3","7","0","e","3","9","b","b","1","c","a","0","}">>>>),
    Some(<<<<"0","0","0","0","1","1","0","b","-","0","0","0","0","-","1","0","0","0","-","8","0","0","0","-","0","0","8","0","5","f","9","b","3","4","f","b">>>>),
    Some(<<<<"0","0","0","0","1","8","0","F","-","0","0","0","0","-","1","0","0","0","-","8","0","0","0","-","0","0","8","0","5","F","9","B","3","4","F","B">>, <<"7","D","F","C","9","0","0","0","-","7","D","1","C","-","4","9","5","1","-","8","6","A","A","-","8","D","9","7","2","8","F","8","D","6","6","C">>>>),
    Some(<<<<"1","8","0","F">>>>) }
HarnessRssi == { None, Some(0), Some(-59), Some(-70) }

HarnessDevices ==
    [ id : {"A"}, localName : HarnessLocalNames, name : HarnessNames, rssi : HarnessRssi,
      manufacturerData : HarnessPayloads, serviceUUIDs : HarnessServiceUUIDs ]

\* The advertisements a scan session delivers.
SessionDevices ==
    [ id : DeviceIds, localName : {None}, name : {Some(<<"i","P","h","o","n","e">>)}, rssi : {Some(-70)},
      manufacturerData : {Some(<<"A","E","w","Q","B","Q","=","=">>)}, serviceUUIDs : {None} ]
    \cup
    [ id : {"A"}, localName : {None}, name : {None}, rssi : {Some(-50)},
      manufacturerData : {Some(<<"T","A","A","S","G","Q","=","=">>)}, serviceUUIDs : {Some(<<>>)} ]

\* Advertisements that differ in signal strength only: missing, the 0 sentinel,
\* a positive reading, readings inside [-100, 0] and one below -100.
SignalRssi == { None, Some(0), Some(7), Some(-30), Some(-59), Some(-127) }

SignalDevices ==
    [ id : DeviceIds, localName : {None}, name : {Some(<<"T","a","g">>)}, rssi : SignalRssi,
      manufacturerData : {None}, serviceUUIDs : {None} ]

\* Advertisements with no name, an empty service list and a vendor payload that
\* is absent, empty, one byte long (4c) or holds no base64 character.
MalformedDevices ==
    [ id : DeviceIds, localName : {None}, name : {None}, rssi : {Some(-59)},
      manufacturerData : { None, Some(<<>>), Some(<<"T","A","=","=">>), Some(<<"!","!">>) },
      serviceUUIDs : {Some(<<>>)} ]

-----------------------------------------------------------------------------
(* Bounds                                                                  *)

MaxClock == 2       \* advertisements delivered in one behaviour (each reads a later clock)
RssiBelow == 105    \* the estimator harness draws readings from -RssiBelow ..
RssiAbove == 5      \* .. up to RssiAbove

-----------------------------------------------------------------------------
(* Initial states                                                          *)

Callers == {"scanner", "map", "favs"}

\* what an earlier run of the application may have left under 'ble_favorites'
InitialStorage == { <<>>, <<"A">> }

InitSession ==
    /\ isScanning = FALSE
    /\ discoveredDevices = <<>>
    /\ scanOwner = "none"
    /\ bleState = "PoweredOn"
    /\ startPc = [c \in Callers |-> "idle"]
    /\ storage \in InitialStorage
    /\ now = 0
    /\ scanner = [isScanning |-> FALSE, devices |-> <<>>, loadPending |-> TRUE]
    /\ map = [isScanning |-> FALSE, devices |-> <<>>]
    /\ favs = [isScanning |-> FALSE, favorites |-> <<>>, favoriteIds |-> <<>>]
    /\ tab = "scanner"

Init ==
    /\ in = None
    /\ out = None
    /\ InitSession

-----------------------------------------------------------------------------
(* RealBLEService: scan session                                            *)

\* stopScanning emptying the map as well
stopScanning_clear ==
    /\ IF isScanning
       THEN /\ isScanning' = FALSE
            /\ scanOwner' = "none"
       ELSE UNCHANGED <<isScanning, scanOwner>>
    /\ discoveredDevices' = <<>>

\* RealBLEService.stopScanning
stopScanning ==
    /\ IF isScanning
       THEN /\ isScanning' = FALSE
            /\ scanOwner' = "none"
       ELSE UNCHANGED <<isScanning, scanOwner>>
    /\ UNCHANGED discoveredDevices

\* RealBLEService.startScanning up to its first await
startScanningCall(c) ==
    startPc' = IF isScanning THEN startPc ELSE [startPc EXCEPT ![c] = "perm"]

\* a startScanning that empties the map before it throws
startScanningThrew_clear(c) ==
    /\ startPc' = [startPc EXCEPT ![c] = "idle"]
    /\ scanner' = IF c = "scanner" THEN [scanner EXCEPT !.isScanning = FALSE] ELSE scanner
    /\ favs' = IF c = "favs" THEN [favs EXCEPT !.isScanning = FALSE] ELSE favs
    /\ discoveredDevices' = <<>>
    /\ UNCHANGED <<map, isScanning, scanOwner>>

\* the catch block of the caller whose startScanning invocation threw
startScanningThrew(c) ==
    /\ startPc' = [startPc EXCEPT ![c] = "idle"]
    /\ scanner' = IF c = "scanner" THEN [scanner EXCEPT !.isScanning = FALSE] ELSE scanner
    /\ favs' = IF c = "favs" THEN [favs EXCEPT !.isScanning = FALSE] ELSE favs
    /\ UNCHANGED <<map, isScanning, discoveredDevices, scanOwner>>

\* requestPermissions resolved true: startScanning goes on to await bleManager.state()
StartPermissionsGranted(c) ==
    /\ startPc[c] = "perm"
    /\ startPc' = [startPc EXCEPT ![c] = "state"]
    /\ UNCHANGED <<harness, isScanning, discoveredDevices, scanOwner, bleState,
                   storage, now, screens>>

\* requestPermissions resolved false: 'Bluetooth permissions not granted'
StartPermissionsDenied(c) ==
    /\ startPc[c] = "perm"
    /\ startScanningThrew(c)
    /\ UNCHANGED <<harness, bleState, storage, now, tab>>

\* bleManager.state() resolved: throw, or register the callback and start the radio scan
StartStateResolved(c) ==
    /\ startPc[c] = "state"
    /\ IF bleState # "PoweredOn"
       THEN startScanningThrew(c)
       ELSE /\ isScanning' = TRUE
            /\ discoveredDevices' = <<>>
            /\ scanOwner' = c
            /\ startPc' = [startPc EXCEPT ![c] = "idle"]
            /\ UNCHANGED <<scanner, map, favs>>
    /\ UNCHANGED <<harness, bleState, storage, now, tab>>

\* scannerOnDeviceFound storing the fresh record as it came
scannerOnDeviceFound_overwrite(prev, device) ==
    LET existingIndex == findIndex(prev, device.id)
    IN  IF existingIndex >= 1
        THEN [prev EXCEPT ![existingIndex] = device]
        ELSE Append(prev, device)

\* ScannerScreen's device callback (setDevices updater)
scannerOnDeviceFound(prev, device) ==
    LET existingIndex == findIndex(prev, device.id)
    IN  IF existingIndex >= 1
        THEN [prev EXCEPT ![existingIndex] =
                 [device EXCEPT !.isFavorite = prev[existingIndex].isFavorite]]
        ELSE Append(prev, device)

\* mapOnDeviceFound without the lookup of an existing entry
mapOnDeviceFound_append(prev, device) ==
    Append(prev, device)

\* MapScreen's device callback (setDevices updater)
mapOnDeviceFound(prev, device) ==
    LET existingIndex == findIndex(prev, device.id)
    IN  IF existingIndex >= 1
        THEN [prev EXCEPT ![existingIndex] = device]
        ELSE Append(prev, device)

\* FavoritesScreen's device callback; favoriteIds was read when the scan was requested
favoritesOnDeviceFound(prev, favoriteIds, device) ==
    LET existingIndex == findIndex(prev, device.id)
        fav == [device EXCEPT !.isFavorite = TRUE]
    IN  IF device.id \notin Range(favoriteIds) THEN prev
        ELSE IF existingIndex >= 1
        THEN [prev EXCEPT ![existingIndex] = fav]
        ELSE Append(prev, fav)

\* The scan callback with a device: process, store, hand to the caller's closure;
\* the list screens re-render, which sorts their state array in place.
ScanCallbackDevice(device) ==
    /\ scanOwner # "none"
    /\ now < MaxClock
    /\ now' = now + 1
    /\ LET bleDevice == processBLEDevice(device, now + 1)
       IN  /\ discoveredDevices' = MapSet(discoveredDevices, device.id, bleDevice)
           /\ scanner' = IF scanOwner = "scanner"
                         THEN [scanner EXCEPT !.devices =
                                  sortByDistance(scannerOnDeviceFound(@, bleDevice))]
                         ELSE scanner
           /\ map' = IF scanOwner = "map"
                     THEN [map EXCEPT !.devices = mapOnDeviceFound(@, bleDevice)]
                     ELSE map
           /\ favs' = IF scanOwner = "favs"
                      THEN [favs EXCEPT !.favorites =
                               sortByDistance(favoritesOnDeviceFound(@, favs.favoriteIds, bleDevice))]
                      ELSE favs
    /\ UNCHANGED <<harness, isScanning, scanOwner, bleState, startPc, storage, tab>>

\* The scan callback with an error
ScanCallbackError ==
    /\ scanOwner # "none"
    /\ stopScanning
    /\ UNCHANGED <<harness, bleState, startPc, storage, now, screens>>

\* onStateChange(PoweredOff)
AdapterPoweredOff ==
    /\ bleState = "PoweredOn"
    /\ bleState' = "PoweredOff"
    /\ stopScanning
    /\ UNCHANGED <<harness, startPc, storage, now, screens>>

\* onStateChange(PoweredOn)
AdapterPoweredOn ==
    /\ bleState = "PoweredOff"
    /\ bleState' = "PoweredOn"
    /\ UNCHANGED <<harness, isScanning, discoveredDevices, scanOwner, startPc,
                   storage, now, screens>>

-----------------------------------------------------------------------------
(* ScannerScreen                                                           *)

\* startScanning, pressed while the button reads 'Start Scan'
ScannerStartScanning ==
    /\ tab = "scanner"
    /\ ~scanner.isScanning
    /\ startPc["scanner"] = "idle"
    /\ scanner' = [scanner EXCEPT !.isScanning = TRUE, !.devices = <<>>]
    /\ startScanningCall("scanner")
    /\ UNCHANGED <<harness, isScanning, discoveredDevices, scanOwner, bleState,
                   storage, now, map, favs, tab>>

\* stopScanning, pressed while the button reads 'Stop Scanning'
ScannerStopScanning ==
    /\ tab = "scanner"
    /\ scanner.isScanning
    /\ stopScanning
    /\ scanner' = [scanner EXCEPT !.isScanning = FALSE]
    /\ UNCHANGED <<harness, bleState, startPc, storage, now, map, favs, tab>>

\* devices.map(device => device.id === deviceId ? {...device, isFavorite: !device.isFavorite} : device)
flipFavorite(devices, deviceId) ==
    [i \in 1..Len(devices) |->
        IF devices[i].id = deviceId
        THEN [devices[i] EXCEPT !.isFavorite = ~devices[i].isFavorite]
        ELSE devices[i]]

\* updatedDevices.filter(device => device.isFavorite).map(device => device.id)
favoriteIdsOf(devices) ==
    LET kept == SelectSeq(devices, LAMBDA d : d.isFavorite)
    IN  [i \in 1..Len(kept) |-> kept[i].id]

\* RealBLEService.saveFavorites: a failed write is caught and logged
saveFavorites(stored, favorites, ok) ==
    IF ok THEN favorites ELSE stored

\* toggleFavorite(deviceId) undoing the state update when the write failed
toggleFavorite_rollback(devices, stored, deviceId, ok) ==
    [ devices |-> IF ok THEN sortByDistance(flipFavorite(devices, deviceId))
                  ELSE sortByDistance(devices),
      storage |-> saveFavorites(stored, favoriteIdsOf(flipFavorite(devices, deviceId)), ok) ]

\* toggleFavorite(deviceId): the list after the state update and re-render, and
\* the stored array after saveFavorites
toggleFavorite(devices, stored, deviceId, ok) ==
    [ devices |-> sortByDistance(flipFavorite(devices, deviceId)),
      storage |-> saveFavorites(stored, favoriteIdsOf(flipFavorite(devices, deviceId)), ok) ]

\* toggleFavorite(deviceId), from the heart button of a listed device
ScannerToggleFavorite(deviceId) ==
    /\ tab = "scanner"
    /\ deviceId \in Ids(scanner.devices)
    /\ \E ok \in BOOLEAN :
          LET after == toggleFavorite(scanner.devices, storage, deviceId, ok)
          IN  /\ scanner' = [scanner EXCEPT !.devices = after.devices]
              /\ storage' = after.storage
    /\ UNCHANGED <<harness, isScanning, discoveredDevices, scanOwner, bleState,
                   startPc, now, map, favs, tab>>

setConnected(devices, deviceId, value) ==
    [i \in 1..Len(devices) |->
        IF devices[i].id = deviceId
        THEN [devices[i] EXCEPT !.isConnected = value]
        ELSE devices[i]]

\* connectToDevice(deviceId): handleDeviceAction on a device that is not connected
ScannerConnectToDevice(deviceId) ==
    /\ tab = "scanner"
    /\ \E i \in 1..Len(scanner.devices) :
          scanner.devices[i].id = deviceId /\ ~scanner.devices[i].isConnected
    /\ \E success \in BOOLEAN :
          scanner' = IF success
                     THEN [scanner EXCEPT !.devices =
                              sortByDistance(setConnected(@, deviceId, TRUE))]
                     ELSE scanner
    /\ UNCHANGED <<harness, service, map, favs, tab>>

\* disconnectFromDevice(deviceId): handleDeviceAction on a connected device
ScannerDisconnectFromDevice(deviceId) ==
    /\ tab = "scanner"
    /\ \E i \in 1..Len(scanner.devices) :
          scanner.devices[i].id = deviceId /\ scanner.devices[i].isConnected
    /\ scanner' = [scanner EXCEPT !.devices =
                      sortByDistance(setConnected(@, deviceId, FALSE))]
    /\ UNCHANGED <<harness, service, map, favs, tab>>

\* prev.map(device => ({...device, isFavorite: favoriteIds.includes(device.id)}))
overlayFavorites(devices, favoriteIds) ==
    [i \in 1..Len(devices) |->
        [devices[i] EXCEPT !.isFavorite = (devices[i].id \in Range(favoriteIds))]]

\* the mount effect's loadFavorites resolving
ScannerLoadFavorites ==
    /\ scanner.loadPending
    /\ scanner' = [scanner EXCEPT
          !.loadPending = FALSE,
          !.devices = sortByDistance(overlayFavorites(scanner.devices, storage))]
    /\ UNCHANGED <<harness, service, map, favs, tab>>

\* useFocusEffect: checkBluetoothState
FocusScanner ==
    /\ tab # "scanner"
    /\ tab' = "scanner"
    /\ UNCHANGED <<harness, service, scanner, map, favs>>

-----------------------------------------------------------------------------
(* MapScreen                                                               *)

\* useFocusEffect: checkPermissionsAndStartScanning
FocusMap ==
    /\ tab # "map"
    /\ startPc["map"] = "idle"
    /\ tab' = "map"
    /\ \E location \in BOOLEAN :
          IF location
          THEN /\ map' = [map EXCEPT !.isScanning = TRUE]
               /\ startScanningCall("map")
          ELSE UNCHANGED <<map, startPc>>
    /\ UNCHANGED <<harness, isScanning, discoveredDevices, scanOwner, bleState,
                   storage, now, scanner, favs>>

-----------------------------------------------------------------------------
(* FavoritesScreen                                                         *)

\* useFocusEffect: loadFavorites and startScanningForFavorites
FocusFavorites ==
    /\ tab # "favs"
    /\ startPc["favs"] = "idle"
    /\ tab' = "favs"
    /\ favs' = [ isScanning  |-> TRUE,
                 favorites   |-> SelectSeq(favs.favorites, LAMBDA d : d.id \in Range(storage)),
                 favoriteIds |-> storage ]
    /\ startScanningCall("favs")
    /\ UNCHANGED <<harness, isScanning, discoveredDevices, scanOwner, bleState,
                   storage, now, scanner, map>>

-----------------------------------------------------------------------------
(* Specifications                                                          *)

ServiceNext ==
    \/ \E device \in SessionDevices : ScanCallbackDevice(device)
    \/ ScanCallbackError
    \/ \E c \in Callers : StartPermissionsGranted(c)
    \/ \E c \in Callers : StartPermissionsDenied(c)
    \/ \E c \in Callers : StartStateResolved(c)

\* The user stays on the scanner tab; the adapter may be switched off and on.
Next ==
    \/ ServiceNext
    \/ AdapterPoweredOff
    \/ AdapterPoweredOn
    \/ ScannerStartScanning
    \/ ScannerStopScanning
    \/ \E id \in DeviceIds : ScannerToggleFavorite(id)
    \/ \E id \in DeviceIds : ScannerConnectToDevice(id)
    \/ \E id \in DeviceIds : ScannerDisconnectFromDevice(id)
    \/ ScannerLoadFavorites

Spec == Init /\ [][Next]_vars

\* The user moves between the three tabs and every screen asks for the scan; one
\* device is a stored favourite, the adapter stays on.
InitTabs ==
    /\ Init
    /\ storage = <<"A">>

NextTabs ==
    \/ ServiceNext
    \/ ScannerStartScanning
    \/ ScannerStopScanning
    \/ ScannerLoadFavorites
    \/ FocusScanner
    \/ FocusMap
    \/ FocusFavorites

SpecTabs == InitTabs /\ [][NextTabs]_vars

\* One scan session of the scanner screen receiving advertisements of every
\* signal strength and advertisements with missing or malformed fields.
NextSignal ==
    \/ ScannerStartScanning
    \/ StartPermissionsGranted("scanner")
    \/ StartStateResolved("scanner")
    \/ \E device \in SignalDevices \cup MalformedDevices : ScanCallbackDevice(device)
    \/ ScannerStopScanning

SpecSignal == Init /\ [][NextSignal]_vars

\* Pure-function harness: one Device is drawn and processBLEDevice is applied to it.
InitProcess ==
    /\ in \in {Some(d) : d \in HarnessDevices}
    /\ out = None
    /\ InitSession
    /\ bleState = "PoweredOn"
    /\ storage = <<>>

ProcessBLEDevice ==
    /\ in # None
    /\ out = None
    /\ out' = Some(processBLEDevice(in[1], now))
    /\ UNCHANGED <<in, service, screens>>

NextProcess == ProcessBLEDevice

SpecProcess == InitProcess /\ [][NextProcess]_vars

\* Pure-function harness: two readings a <= b are drawn and calculateDistance is
\* applied to each with the default txPower.
HarnessReadings == (0 - RssiBelow)..RssiAbove

InitDistance ==
    /\ in \in {Some([a |-> a, b |-> b]) : a, b \in HarnessReadings} 
    /\ in[1].a <= in[1].b
    /\ out = None
    /\ InitSession
    /\ storage = <<>>

CalculateDistance ==
    /\ in # None
    /\ out = None
    /\ out' = Some([a |-> calculateDistance(in[1].a, -59),
                    b |-> calculateDistance(in[1].b, -59)])
    /\ UNCHANGED <<in, service, screens>>

NextDistance == CalculateDistance

SpecDistance == InitDistance /\ [][NextDistance]_vars

-----------------------------------------------------------------------------
(* Properties                                                              *)

Categories == {"airtag", "iphone", "android", "headphones", "unknown"}

\* the decoded bytes of a Device's vendor payload (empty when there is none)
payloadBytes(device) ==
    IF device.manufacturerData = None THEN <<>>
    ELSE BufferFromBase64(device.manufacturerData[1])

\* the little-endian 16-bit vendor id of the payload, -1 when it has fewer than 2 bytes
vendorId(device) ==
    IF Len(payloadBytes(device)) >= 2
    THEN payloadBytes(device)[1] + 256 * payloadBytes(device)[2]
    ELSE -1

AppleVendorId == 76     \* 0x004C

lowerName(device) == toLowerCase(deviceName(device, <<>>))

\* the Tracker and PhoneIOS patterns as the classifier evaluates them
matchesTrackerPattern(device) ==
    /\ appleManufacturerData(device) # None
    /\ isAirTag(appleManufacturerData(device)[1], deviceServiceUUIDs(device))

matchesPhoneIOSPattern(device) ==
    /\ appleManufacturerData(device) # None
    /\ isIPhone(appleManufacturerData(device)[1], deviceServiceUUIDs(device), lowerName(device))

hasTypeMarker(device) ==
    substring(toStringHex(payloadBytes(device)), 4, 6) = <<"1","2">>

\* rule 1 and rule 2 as the specification words them, on the little-endian vendor id
rule1Tracker(device) ==
    /\ vendorId(device) = AppleVendorId
    /\ \/ someIncludes(deviceServiceUUIDs(device), findMyServiceUUID)
       \/ hasTypeMarker(device)

rule2PhoneIOS(device) ==
    /\ vendorId(device) = AppleVendorId
    /\ ~rule1Tracker(device)
    /\ \/ someIncludes(deviceServiceUUIDs(device), handoffServiceUUID)
       \/ someIncludes(deviceServiceUUIDs(device), airdropServiceUUID)
       \/ includes(lowerName(device), <<"i","p","h","o","n","e">>)
       \/ includes(lowerName(device), <<"i","o","s">>)

\* C7: for a payload of two or more bytes the vendor id is byte0 + 256*byte1, and
\* the classifier's platform-maker test passes exactly when that id is 0x004C.
C7_PlatformMakerTestIsLittleEndian ==
    (out # None /\ Len(payloadBytes(in[1])) >= 2) =>
        /\ (out[1].manufacturer = "Apple") <=> (vendorId(in[1]) = AppleVendorId)
        /\ (appleManufacturerData(in[1]) # None) <=> (vendorId(in[1]) = AppleVendorId)

\* C8: a payload of at least 3 bytes with vendor id 0x004C and either the find
\* service UUID or the type marker "12" at byte offset 2 is classified Tracker.
C8_TrackerRule ==
    (out # None /\ Len(payloadBytes(in[1])) >= 3 /\ rule1Tracker(in[1]))
        => out[1].type = "airtag"

\* C9: the category is PhoneIOS exactly when the vendor id is 0x004C, rule 1 does
\* not match and a handoff/peer-transfer UUID or an "iphone"/"ios" name is present.
C9_PhoneIOSRule ==
    out # None => ((out[1].type = "iphone") <=> rule2PhoneIOS(in[1]))

AndroidVendorIds == {224, 117, 29}      \* 0x00E0, 0x0075, 0x001D

\* C10: an advertisement that matches none of rules 1 to 3 is PhoneAndroid when its
\* name contains "android", "pixel" or "samsung" (vendor payload present or not)
\* or its vendor id is an Android-ecosystem maker id.
C10_PhoneAndroidRule ==
    (/\ out # None
     /\ out[1].type \notin {"airtag", "iphone", "headphones"}
     /\ ~rule1Tracker(in[1])
     /\ ~rule2PhoneIOS(in[1])
     /\ \/ includes(lowerName(in[1]), <<"a","n","d","r","o","i","d">>)
        \/ includes(lowerName(in[1]), <<"p","i","x","e","l">>)
        \/ includes(lowerName(in[1]), <<"s","a","m","s","u","n","g">>)
        \/ vendorId(in[1]) \in AndroidVendorIds)
        => out[1].type = "android"

UniqueIds(list) ==
    \A i, j \in 1..Len(list) : list[i].id = list[j].id => i = j

\* the values of the service's map, in insertion order
registryRecords == [i \in 1..Len(discoveredDevices) |-> discoveredDevices[i][2]]

\* C2: the service's map and every screen's list hold at most one record per id.
C2_OneRecordPerId ==
    /\ \A i, j \in 1..Len(discoveredDevices) :
           discoveredDevices[i][1] = discoveredDevices[j][1] => i = j
    /\ UniqueIds(registryRecords)
    /\ UniqueIds(scanner.devices)
    /\ UniqueIds(map.devices)
    /\ UniqueIds(favs.favorites)

\* a second advertisement for an id was merged into the list that already held it
C2_Witness ==
    /\ Len(map.devices) = 1
    /\ Len(discoveredDevices) = 1
    /\ map.devices[1].lastSeen = 2
    /\ map.devices[1].type = "unknown"
    /\ scanner.devices = <<>>
    /\ favs.favorites = <<>>

\* the isFavorite value of every record present before and after the step is the same
keepsFavorite(before, after) ==
    \A i \in 1..Len(before) : \A j \in 1..Len(after) :
        before[i].id = after[j].id => after[j].isFavorite = before[i].isFavorite

\* C3: merging an advertisement (the only step that reads the clock) leaves the
\* isFavorite value of every record already present unchanged, in the service's
\* map and in every screen's list.
C3_RepeatKeepsFavorite ==
    [][now' # now =>
          /\ keepsFavorite(registryRecords, registryRecords')
          /\ keepsFavorite(scanner.devices, scanner.devices')
          /\ keepsFavorite(map.devices, map.devices')
          /\ keepsFavorite(favs.favorites, favs.favorites')]_vars

\* a favourite on the scanner list has been refreshed by a later advertisement
C3_Witness ==
    \E i \in 1..Len(scanner.devices) :
        /\ scanner.devices[i].isFavorite
        /\ scanner.devices[i].lastSeen = 2
        /\ scanner.devices[i].signalStrength = -50

keepsConnected(before, after) ==
    \A i \in 1..Len(before) : \A j \in 1..Len(after) :
        before[i].id = after[j].id => after[j].isConnected = before[i].isConnected

\* C4: merging an advertisement leaves the isConnected value of every record
\* already on the scanner list unchanged.
C4_RepeatKeepsConnected ==
    [][now' # now => keepsConnected(scanner.devices, scanner.devices')]_vars

\* C5: the record resulting from observing a device whose id is in the stored
\* favorites is a favourite.
C5_StoredFavoriteObservedAsFavorite ==
    [][now' # now =>
          \A j \in 1..Len(scanner.devices') :
              (scanner.devices'[j].lastSeen = now' /\ scanner.devices'[j].id \in Range(storage'))
                  => scanner.devices'[j].isFavorite]_vars

\* C6: toggleFavorite(id) applied twice in a row, both writes succeeding, gives
\* back the list and the stored identifier set it started from.
C6_ToggleTwiceRestores ==
    \A id \in Ids(scanner.devices) :
        LET once  == toggleFavorite(scanner.devices, storage, id, TRUE)
            twice == toggleFavorite(once.devices, once.storage, id, TRUE)
        IN  /\ twice.devices = scanner.devices
            /\ Range(twice.storage) = Range(storage)

\* rule 3 as the specification words it: an audio-profile UUID among the service
\* UUIDs, or an audio keyword in the lower-cased name
rule3AudioAccessory(device) ==
    \/ \E u \in audioServiceUUIDs : someIncludes(deviceServiceUUIDs(device), u)
    \/ includes(lowerName(device), <<"a","i","r","p","o","d","s">>)
    \/ includes(lowerName(device), <<"h","e","a","d","p","h","o","n","e","s">>)
    \/ includes(lowerName(device), <<"s","p","e","a","k","e","r">>)
    \/ includes(lowerName(device), <<"b","e","a","t","s">>)

\* C11: an advertisement matching neither rule 1 nor rule 2 that carries an
\* audio-profile UUID or an audio keyword in its name is AudioAccessory, whatever
\* its vendor id and whether or not the PhoneAndroid rule matches too.
C11_AudioAccessoryRule ==
    (/\ out # None
     /\ ~rule1Tracker(in[1])
     /\ ~rule2PhoneIOS(in[1])
     /\ rule3AudioAccessory(in[1]))
        => out[1].type = "headphones"

MinDistance == 100000        \* 0.1 m
MaxDistance == 100000000     \* 100 m

inDistanceRange(list) ==
    \A i \in 1..Len(list) : MinDistance <= list[i].distance /\ list[i].distance <= MaxDistance

\* C12: every record of the service's map (and of the list built from it) has an
\* estimated distance between 0.1 m and 100 m, whatever signal strengths the
\* advertisements carried.
C12_DistanceWithinRange ==
    /\ inDistanceRange(registryRecords)
    /\ inDistanceRange(scanner.devices)

\* the map holds a record from a positive reading and one from a reading below -100
C12_Witness ==
    /\ \E i \in 1..Len(registryRecords) :
           registryRecords[i].signalStrength = 7 /\ registryRecords[i].distance = MinDistance
    /\ \E i \in 1..Len(registryRecords) :
           registryRecords[i].signalStrength = -127 /\ registryRecords[i].distance = MaxDistance

\* what calculateDistance returns for the 0 sentinel
DistanceUnavailable == calculateDistance(0, -59)

\* C13: the estimator's answer for signal strength 0 lies outside the range of
\* real distances, and the record built from such an advertisement never holds
\* it: the caller puts the default reading -100 in place of the 0.
C13_UnavailableNeverStored ==
    /\ DistanceUnavailable < MinDistance
    /\ out # None => out[1].distance # DistanceUnavailable
    /\ (out # None /\ in[1].rssi = Some(0)) =>
           /\ out[1].signalStrength = -100
           /\ out[1].distance = calculateDistance(-100, -59)
           /\ MinDistance <= out[1].distance /\ out[1].distance <= MaxDistance

C13_Witness ==
    /\ out # None
    /\ in[1].rssi = Some(0)
    /\ out[1].distance = MaxDistance

\* C14: over readings -100 .. -1 a stronger reading never gives a longer estimate,
\* and the same reading gives the same estimate.
C14_DistanceMonotone ==
    (out # None /\ in[1].a >= -100 /\ in[1].b <= -1) =>
        /\ out[1].b <= out[1].a
        /\ in[1].a = in[1].b => out[1].a = out[1].b

C14_Witness ==
    /\ out # None
    /\ in[1].a = -70
    /\ in[1].b = -50
    /\ out[1].b < out[1].a

\* C15: with txPower -59 the estimate is 1 m at -59, 10 m at -79, 100 m at every
\* reading of -99 or below and 0.1 m at every non-zero reading of -39 or above.
C15_DistanceValues ==
    out # None =>
        /\ in[1].a = -59 => out[1].a = 1000000
        /\ in[1].a = -79 => out[1].a = 10000000
        /\ in[1].a <= -99 => out[1].a = MaxDistance
        /\ (in[1].a >= -39 /\ in[1].a # 0) => out[1].a = MinDistance

C15_Witness ==
    /\ out # None
    /\ in[1].a = -79
    /\ in[1].b = -59
    /\ out[1].a = 10000000
    /\ out[1].b = 1000000

\* the entries of the service's map stored under an id
entriesOf(m, id) == {i \in 1..Len(m) : m[i][1] = id}

\* C16: when the map holds the record of an advertisement and the same
\* advertisement is observed again at the next clock reading, the map still has
\* exactly one record for that id, equal to the earlier one in every field except
\* lastSeen, which holds the later reading.
C16_SameAdvertisementTwice ==
    \A d \in SessionDevices : \A i \in 1..Len(discoveredDevices) :
        discoveredDevices[i][2] = processBLEDevice(d, discoveredDevices[i][2].lastSeen) =>
            LET twice == MapSet(discoveredDevices, d.id, processBLEDevice(d, now + 1))
            IN  /\ Cardinality(entriesOf(discoveredDevices, d.id)) = 1
                /\ Cardinality(entriesOf(twice, d.id)) = 1
                /\ Len(twice) = Len(discoveredDevices)
                /\ twice[i][2] = [discoveredDevices[i][2] EXCEPT !.lastSeen = now + 1]
                /\ twice[i][2].lastSeen > discoveredDevices[i][2].lastSeen

\* device A was observed, made a favourite on the list, and observed again in the
\* same session: the map holds one record, with the later reading
C16_Witness ==
    /\ scanner.loadPending
    /\ Len(scanner.devices) = 1
    /\ scanner.devices[1].isFavorite
    /\ scanner.devices[1].lastSeen = 2
    /\ Len(discoveredDevices) = 1
    /\ \E d \in SessionDevices : discoveredDevices[1][2] = processBLEDevice(d, 2)

\* no record present before and after the step has an earlier lastSeen after it
lastSeenNotBefore(before, after) ==
    \A i \in 1..Len(before) : \A j \in 1..Len(after) :
        before[i].id = after[j].id => after[j].lastSeen >= before[i].lastSeen

\* C17: no step takes the lastSeen of a device's record back, in the service's
\* map or on the scanner list.
C17_LastSeenNeverDecreases ==
    [][/\ lastSeenNotBefore(registryRecords, registryRecords')
       /\ lastSeenNotBefore(scanner.devices, scanner.devices')]_vars

\* device B was observed, made a favourite on the list, and observed again
C17_Witness ==
    /\ scanner.loadPending
    /\ \E i \in 1..Len(scanner.devices) :
           /\ scanner.devices[i].id = "B"
           /\ scanner.devices[i].isFavorite
           /\ scanner.devices[i].lastSeen = 2
    /\ \E i \in 1..Len(registryRecords) :
           registryRecords[i].id = "B" /\ registryRecords[i].lastSeen = 2

\* the record's category, signal strength and distance are those of advertisement d
computedFrom(record, d) ==
    /\ record.id = d.id
    /\ record.type = identifyDeviceType(d)
    /\ record.signalStrength = rssiOrDefault(d)
    /\ record.distance = calculateDistance(rssiOrDefault(d), -59)

\* the list holds exactly one record stamped with the clock reading t, and its
\* category, signal strength and distance are those of one advertisement
latestComputedAlone(list, t) ==
    /\ Cardinality({j \in 1..Len(list) : list[j].lastSeen = t}) = 1
    /\ \A j \in 1..Len(list) :
           list[j].lastSeen = t => \E d \in SessionDevices : computedFrom(list[j], d)

\* a record that had signal -70 and now has signal -50 has a strictly shorter distance
strongerIsNearer(before, after) ==
    \A i \in 1..Len(before) : \A j \in 1..Len(after) :
        (/\ before[i].id = after[j].id
         /\ before[i].signalStrength = -70
         /\ after[j].signalStrength = -50) => after[j].distance < before[i].distance

IdOrder == <<"A", "B">>
idBefore(a, b) ==
    \E i, j \in 1..Len(IdOrder) : IdOrder[i] = a /\ IdOrder[j] = b /\ i < j

sortedByDistanceThenId(list) ==
    \A i, j \in 1..Len(list) :
        i < j => \/ list[i].distance < list[j].distance
                 \/ /\ list[i].distance = list[j].distance
                    /\ idBefore(list[i].id, list[j].id)

\* C19: the scanner list as rendered is in ascending order of distance, and records
\* of equal distance are in ascending order of id.
C19_SortedByDistanceTiesById ==
    sortedByDistanceThenId(scanner.devices)

\* the isFavorite value of the record with the given id
favoriteOf(list, id) == list[findIndex(list, id)].isFavorite

\* C20: a toggleFavorite whose write to storage fails leaves the stored array as
\* it was and the list with the flipped value for that device and the old value
\* for every other one.
C20_FailedSaveKeepsToggle ==
    \A id \in Ids(scanner.devices) :
        LET after == toggleFavorite(scanner.devices, storage, id, FALSE)
        IN  /\ after.storage = storage
            /\ Ids(after.devices) = Ids(scanner.devices)
            /\ favoriteOf(after.devices, id) = ~favoriteOf(scanner.devices, id)
            /\ \A other \in Ids(scanner.devices) \ {id} :
                   favoriteOf(after.devices, other) = favoriteOf(scanner.devices, other)

\* a listed device is a favourite that the stored array does not name: its toggle
\* was kept although the write failed
C20_Witness ==
    \E i \in 1..Len(scanner.devices) :
        /\ scanner.devices[i].isFavorite
        /\ scanner.devices[i].id \notin Range(storage)

\* C21: when the adapter is reported powered off, no scan is active afterwards
\* and the records of the session are gone from the service's map.
C21_PowerOffEndsSessionAndClears ==
    [][(bleState = "PoweredOn" /\ bleState' = "PoweredOff") =>
          /\ ~isScanning'
          /\ scanOwner' = "none"
          /\ discoveredDevices' = <<>>]_vars

\* C22: a step that takes the service out of Scanning leaves every record of the
\* service's map and of the screens' lists, the stored favorites and the clock as
\* they were.
C22_StopKeepsRecords ==
    [][(isScanning /\ ~isScanning') =>
          /\ discoveredDevices' = discoveredDevices
          /\ scanner.devices' = scanner.devices
          /\ map.devices' = map.devices
          /\ favs.favorites' = favs.favorites
          /\ UNCHANGED <<storage, now>>]_vars

\* the scan was stopped from the scanner screen after two devices were merged
C22_Witness ==
    /\ ~isScanning
    /\ ~scanner.isScanning
    /\ Len(discoveredDevices) = 2
    /\ Len(scanner.devices) = 2

\* the step in which caller c's startScanning gets past both awaits, registers its
\* callback and invokes startDeviceScan
startSucceeded(c) ==
    /\ startPc[c] = "state"
    /\ startPc'[c] = "idle"
    /\ isScanning'
    /\ scanOwner' = c

\* C23: when a caller's scan session starts, the service's map is empty and so is
\* that caller's own device list, so neither holds a record of an earlier session
\* once the session's advertisements arrive.
C23_NewSessionStartsEmpty ==
    [][\A c \in Callers :
          startSucceeded(c) =>
              /\ discoveredDevices' = <<>>
              /\ c = "scanner" => scanner.devices' = <<>>
              /\ c = "map" => map.devices' = <<>>]_vars

ManufacturerNames == {"Apple", "Google", "Samsung", "Qualcomm", "Broadcom", "Unknown"}

\* the record's vendor payload is absent or decodes to fewer than 2 bytes
shortPayload(record) ==
    \/ record.advertisementData = None
    \/ Len(BufferFromBase64(record.advertisementData[1])) < 2

\* the list holds exactly one record stamped t, with one category and a vendor
\* name, the vendor being 'Unknown' when the payload gives no vendor id
mergedWhole(list, t) ==
    /\ Cardinality({j \in 1..Len(list) : list[j].lastSeen = t}) = 1
    /\ \A j \in 1..Len(list) :
           list[j].lastSeen = t =>
               /\ list[j].type \in Categories
               /\ list[j].manufacturer \in ManufacturerNames
               /\ shortPayload(list[j]) => list[j].manufacturer = "Unknown"

\* C24: every advertisement handed to the scan callback, whatever is missing or
\* malformed in it, ends as one record with one category in the service's map and
\* on the caller's list; a payload without a vendor id gives vendor 'Unknown'.
C24_ProcessingNeverFails ==
    [][now' # now =>
          /\ mergedWhole(registryRecords', now')
          /\ mergedWhole(scanner.devices', now')]_vars

\* the map holds a record from an undecodable payload and one from a one-byte payload
C24_Witness ==
    /\ \E i \in 1..Len(registryRecords) :
           /\ registryRecords[i].advertisementData = Some(<<"!","!">>)
           /\ registryRecords[i].manufacturer = "Unknown"
           /\ registryRecords[i].type = "unknown"
    /\ \E i \in 1..Len(registryRecords) :
           /\ registryRecords[i].advertisementData = Some(<<"T","A","=","=">>)
           /\ registryRecords[i].manufacturer = "Unknown"
           /\ registryRecords[i].name = <<"U","n","k","n","o","w","n"," ","D","e","v","i","c","e">>

\* C25: startDeviceScan is invoked only while no scan is active, so that between
\* two stops the radio is asked to scan at most once.
C25_OneRadioScan ==
    [][\A c \in Callers : startSucceeded(c) => ~isScanning]_vars

\* C26: while the scanner screen is not scanning (its last request was a stop, or
\* a start that failed, and no start was issued since) the service has no scan
\* active and delivers to no callback.
C26_NoScanAfterStop ==
    ~scanner.isScanning => (~isScanning /\ scanOwner = "none")

\* C27: a toggleFavorite(id) whose write succeeds leaves every other identifier in
\* the stored array if it was there and out of it if it was not.
C27_ToggleTouchesOnlyItsId ==
    \A id \in Ids(scanner.devices) :
        LET after == toggleFavorite(scanner.devices, storage, id, TRUE).storage
        IN  \A other \in DeviceIds \ {id} :
                (other \in Range(storage)) <=> (other \in Range(after))

\* C28: a record classified airtag or iphone has manufacturer 'Apple', and a
\* record with manufacturer 'Apple' passed the classifier's platform-maker test.
C28_VendorAgreesWithCategory ==
    out # None =>
        /\ out[1].type \in {"airtag", "iphone"} => out[1].manufacturer = "Apple"
        /\ out[1].manufacturer = "Apple" => appleManufacturerData(in[1]) # None

\* C29: while the scanner screen shows Scanning, the service has a scan active or
\* the screen's startScanning call is still in progress.
C29_ScreenFlagAgreesWithService ==
    scanner.isScanning => (isScanning \/ startPc["scanner"] # "idle")

\* the step in which the scanner screen calls startScanning
startRequested ==
    ~scanner.isScanning /\ scanner.isScanning'

\* the step in which caller c's startScanning throws
startThrew(c) ==
    /\ startPc[c] # "idle"
    /\ startPc'[c] = "idle"
    /\ ~startSucceeded(c)

\* C30: a startScanning call made while a scan is active, and one that throws,
\* leave isScanning, the service's map and the registered callback as they were.
C30_FailedStartChangesNothing ==
    [][/\ (isScanning /\ startRequested) =>
             UNCHANGED <<isScanning, discoveredDevices, scanOwner, startPc>>
       /\ \A c \in Callers :
             startThrew(c) => UNCHANGED <<isScanning, discoveredDevices, scanOwner>>]_vars

\* the map still holds a record after a start was requested (the list was emptied)
\* and did not start a scan
C30_Witness ==
    /\ ~isScanning
    /\ ~scanner.isScanning
    /\ startPc["scanner"] = "idle"
    /\ scanner.devices = <<>>
    /\ Len(discoveredDevices) >= 1

====
